---- MODULE Spec2Model ----
(***************************************************************************)
(* Model of bridge.py: the Discord <-> Stoat bidirectional bridge.         *)
(*                                                                         *)
(* The module-level code (configuration, length check, the two lookup      *)
(* maps, the two registries), main(), the two setup routines               *)
(* (StoatBot.on_ready, DiscordBot._setup_webhooks) and the two relay       *)
(* handlers (StoatBot.on_message_create, DiscordBot.on_message) are each   *)
(* translated from the source.  An awaited send is a suspension point: the *)
(* handler's synchronous part issues the call, a later step                *)
(* resolves it with success or with an exception.                          *)
(*                                                                         *)
(* Spec explores one process run with messages handled as they come;      *)
(* SpecTable the construction of the Pair Table over all id lists;         *)
(* SpecSetup start-up and setup over several process runs; SpecOrder two   *)
(* awaited sends of one handler; SpecDup id lists that name a channel      *)
(* twice; SpecLive messages that wait for a fair dispatch.                 *)
(*                                                                         *)
(* A message text is held run-length encoded: <<[ch |-> "a", n |-> 1500],  *)
(* [ch |-> "b", n |-> 1500]>> is the 3000 character text of 1500 a's and   *)
(* 1500 b's.  Slicing works on the runs; Expand gives the characters.      *)
(***************************************************************************)
EXTENDS Integers, Sequences, FiniteSets, TLC

\* ------------------------------------------------------------------ bounds
MaxPairs    == 2     \* longest id list the Pair Table is built from
MaxEvents   == 2     \* handler invocations per run
MaxInFlight == 1     \* awaited sends outstanding at the same time
MaxRuns     == 2     \* process runs on one host, one after the other
DupEvents   == 1     \* handler invocations per run with three channel pairs
LiveEvents  == 4     \* handler invocations per run with arriving messages
ShortLen    == 3     \* length of the short message text
LongLen     == 3000  \* length of the long message text
LongHead    == 1500  \* where the long text changes from "a" to "b"

\* ------------------------------------------------------- program constants
DiscordContentLimit == 2000   \* msg.content[:2000]      (Stoat -> Discord)
StoatContentLimit   == 2000   \* message.content[:2000]  (Discord -> Stoat)

\* --------------------------------------------------------------- universes
StoatNames == <<"sa", "sb", "sc", "sd">>
DiscordIds == {1, 2}           \* the Discord channels messages arrive on
StoatIds   == {"sa", "sb"}     \* the Stoat channels messages arrive on

\* an environment variable: unset, or set to a text
Unset       == [set |-> FALSE, text |-> ""]
EnvText(t)  == [set |-> TRUE, text |-> t]
EnvTokens   == {Unset, EnvText(""), EnvText("tok")}

\* os.getenv(name, default)
Getenv(v, default) == IF v.set THEN v.text ELSE default

StoatMe     == "stoat_bot"     \* self.me.id of the Stoat client
DiscordUser == "discord_bot"   \* self.user of the Discord client

Min(a, b) == IF a < b THEN a ELSE b

SeqsUpTo(S, n) == UNION {[1..k -> S] : k \in 0..n}

\* the id lists the bridge is run with: none, one channel, one channel
\* listed twice, two channels (ids numbered in order of first appearance;
\* every list of up to two ids is one of these up to a renaming)
RunLists == {<<>>, <<1>>, <<1, 1>>, <<1, 2>>}

\* a comma-separated environment value is held as the fields between its
\* commas: each field a text with or without blanks around it
Field(pad, t) == [pad |-> pad, text |-> t]
DigitText == <<"1", "2", "3", "4">>

\* the value listing the given texts: "" for none; otherwise every field
\* after the first has blanks around it, and a value of two or more ids
\* ends with a comma
RawOf(texts) ==
    IF texts = <<>> THEN [set |-> TRUE, fields |-> <<Field(FALSE, "")>>]
    ELSE [set |-> TRUE,
          fields |-> [i \in DOMAIN texts |-> Field(i > 1, texts[i])]
                     \o (IF Len(texts) > 1 THEN <<Field(FALSE, "")>>
                         ELSE <<>>)]
RawUnset == [set |-> FALSE, fields |-> <<>>]

DiscordRawOf(ids) == RawOf([i \in DOMAIN ids |-> DigitText[ids[i]]])
StoatRawOf(names) == RawOf([i \in DOMAIN names |-> StoatNames[names[i]]])

\* x.strip(), and int(x) of a stripped field
Strip(f) == f.text
IntOf(t) == CHOOSE k \in DOMAIN DigitText : DigitText[k] = t

\* [int(x.strip()) for x in raw.split(",") if x.strip()]
NonBlank(f) == Strip(f) # ""
ParseDiscordIds(raw) ==
    LET kept == SelectSeq(raw.fields, NonBlank)
    IN  [i \in DOMAIN kept |-> IntOf(Strip(kept[i]))]

\* [x.strip() for x in raw.split(",") if x.strip()]
ParseStoatIds(raw) ==
    LET kept == SelectSeq(raw.fields, NonBlank)
    IN  [i \in DOMAIN kept |-> Strip(kept[i])]

\* the run-length encoded message texts
Run(c, n) == [ch |-> c, n |-> n]
Contents ==
    { <<>>,
      <<Run("a", ShortLen)>>,
      <<Run("a", LongHead), Run("b", LongLen - LongHead)>> }

RECURSIVE TextLen(_)
TextLen(runs) ==
    IF runs = <<>> THEN 0 ELSE Head(runs).n + TextLen(Tail(runs))

RECURSIVE Expand(_)
Expand(runs) ==
    IF runs = <<>> THEN <<>>
    ELSE [i \in 1..Head(runs).n |-> Head(runs).ch] \o Expand(Tail(runs))

\* text[:k]
RECURSIVE Slice(_, _)
Slice(runs, k) ==
    IF k <= 0 \/ runs = <<>> THEN <<>>
    ELSE IF Head(runs).n <= k
         THEN <<Head(runs)>> \o Slice(Tail(runs), k - Head(runs).n)
         ELSE <<Run(Head(runs).ch, k)>>

\* a Discord webhook; NoWebhook is Python's None for dict.get
NoWebhook == [id |-> 0, user |-> "none", channel |-> 0]
\* a Stoat channel handle; NoChannel is Python's None for dict.get
NoChannel == [id |-> "none"]
NoMsg     == [id |-> 0, channel |-> "none", content |-> <<>>]
\* no handler has been invoked yet
NoEvent   == [n |-> 0, dir |-> "none", msg |-> NoMsg, outcome |-> "none",
              warnings |-> 0, sends |-> 0,
              reads |-> [discord_webhooks |-> 0, stoat_channels |-> 0]]

VARIABLES
    _discord_raw, _stoat_raw,                \* lines 40-41
    runs,             \* process runs started on this host so far
    budget,           \* how much of a run is explored: handler invocations
                      \* and awaited sends outstanding at the same time
    DISCORD_BOT_TOKEN, STOAT_BOT_TOKEN,      \* lines 36-37
    DISCORD_CHANNEL_IDS, STOAT_CHANNEL_IDS,  \* lines 43-44
    STOAT_TO_DISCORD, DISCORD_TO_STOAT,      \* lines 77-83
    discord_webhooks, stoat_channels,        \* lines 85-86
    defined,          \* module-level names bound so far
    pc,               \* "parse", "load", "loaded", "running", and the two
                      \* ends by an uncaught exception: "config_error"
                      \* (RuntimeError), "attribute_error" (AttributeError)
    started,          \* clients constructed and started by main()
    stoat_pc,         \* "off", "connecting", "ready"
    discord_pc,       \* "off", "connecting", "ready"
    stoat_i,          \* StoatBot.on_ready loop position (0 = not running)
    disc_i,           \* _setup_webhooks loop position (0 = not running)
    stoat_failed,     \* Stoat ids of the logger.error calls of line 102
    discord_failed,   \* Discord ids of the logger.error calls of line 178
    channel_webhooks, \* the webhooks Discord holds for each channel
    next_wh_id,       \* id Discord gives to the next created webhook
    webhook_sends,    \* awaited webhook.send calls not yet resolved
    channel_sends,    \* awaited ch.send calls not yet resolved
    discord_inbox,    \* messages the bridge posted on Discord, not yet seen
    stoat_inbox,      \* messages the bridge posted on Stoat, not yet seen
    last,             \* what the most recent handler invocation did
    n_events,         \* handler invocations so far
    n_passed,         \* invocations that passed all filters
    n_sends,          \* outbound send calls issued
    n_err,            \* logger.error calls of the relay handlers
    escaped           \* an exception left a relay handler

envvars   == <<_discord_raw, _stoat_raw, runs, budget>>
cfgvars   == <<DISCORD_BOT_TOKEN, STOAT_BOT_TOKEN,
               DISCORD_CHANNEL_IDS, STOAT_CHANNEL_IDS>>
tablevars == <<STOAT_TO_DISCORD, DISCORD_TO_STOAT>>
regvars   == <<discord_webhooks, stoat_channels>>
lifevars  == <<defined, pc, started, stoat_pc, discord_pc>>
setupvars == <<stoat_i, disc_i, stoat_failed, discord_failed,
               channel_webhooks, next_wh_id>>
relayvars == <<webhook_sends, channel_sends, discord_inbox, stoat_inbox,
               last, n_events, n_passed, n_sends, n_err, escaped>>
vars == <<envvars, cfgvars, tablevars, regvars, lifevars, setupvars, relayvars>>

\* ---------------------------------------------------------- the Pair Table
\* zip(a, b): stops at the shorter list
Zip(a, b) == [i \in 1..Min(Len(a), Len(b)) |-> <<a[i], b[i]>>]

\* the position whose entry a dict comprehension keeps for key k: the last
FirstIndex(z, col, k) ==
    CHOOSE i \in DOMAIN z :
        /\ z[i][col] = k
        /\ \A j \in DOMAIN z : z[j][col] = k => i <= j

LastIndex(z, col, k) ==
    CHOOSE i \in DOMAIN z :
        /\ z[i][col] = k
        /\ \A j \in DOMAIN z : z[j][col] = k => j <= i

\* {s: d for d, s in zip(DISCORD_CHANNEL_IDS, STOAT_CHANNEL_IDS)}
BuildStoatToDiscord(dids, sids) ==
    LET z == Zip(dids, sids)
    IN  [s \in {z[i][2] : i \in DOMAIN z} |-> z[LastIndex(z, 2, s)][1]]

\* the Discord id of position i paired with the Stoat id of position i + 1
BuildDiscordToStoatShifted(dids, sids) ==
    LET n == Min(Len(dids), Len(sids))
    IN  [d \in {dids[i] : i \in 1..n} |->
            sids[((CHOOSE i \in 1..n : dids[i] = d) % n) + 1]]

\* {d: s for d, s in zip(DISCORD_CHANNEL_IDS, STOAT_CHANNEL_IDS)}
BuildDiscordToStoat(dids, sids) ==
    LET z == Zip(dids, sids)
    IN  [d \in {z[i][1] : i \in DOMAIN z} |-> z[LastIndex(z, 1, d)][2]]

\* only a surplus of Discord ids is refused
LengthMismatchOneSided(dids, sids) == Len(dids) > Len(sids)

\* if len(DISCORD_CHANNEL_IDS) != len(STOAT_CHANNEL_IDS): raise RuntimeError
LengthMismatch(dids, sids) == Len(dids) # Len(sids)

\* not all([DISCORD_BOT_TOKEN, STOAT_BOT_TOKEN, DISCORD_CHANNEL_IDS, ...])
MissingConfigurationTokens(dtok, stok, dids, sids) ==
    \/ dtok = ""
    \/ stok = ""

MissingConfiguration(dtok, stok, dids, sids) ==
    \/ dtok = ""
    \/ stok = ""
    \/ dids = <<>>
    \/ sids = <<>>

EmptyMap == [x \in {} |-> 0]

\* dict.get(k): the entry, or None
Get(map, k, none) == IF k \in DOMAIN map THEN map[k] ELSE none

PutAlone(map, k, v) == [x \in {k} |-> v]

Put(map, k, v) == [x \in DOMAIN map \cup {k} |-> IF x = k THEN v ELSE map[x]]

\* the webhooks the Discord channels hold before the process starts:
\* channel 1 one webhook of another application, channel 2 one of another
\* application and one the bot created in an earlier run
InitialWebhooks ==
    [d \in DiscordIds |->
        IF d = 1 THEN <<[id |-> 90, user |-> "other", channel |-> 1]>>
        ELSE IF d = 2
             THEN <<[id |-> 92, user |-> "other", channel |-> 2],
                    [id |-> 91, user |-> DiscordUser, channel |-> 2]>>
        ELSE <<>>]

\* what a process run starts from: the tokens of lines 36-37 are read,
\* nothing else is bound yet and nothing has happened
ProcessStart ==
    /\ DISCORD_CHANNEL_IDS = <<>>
    /\ STOAT_CHANNEL_IDS = <<>>
    /\ STOAT_TO_DISCORD = EmptyMap
    /\ DISCORD_TO_STOAT = EmptyMap
    /\ discord_webhooks = EmptyMap
    /\ stoat_channels = EmptyMap
    /\ defined = {}
    /\ pc = "parse"
    /\ started = {}
    /\ stoat_pc = "off"
    /\ discord_pc = "off"
    /\ stoat_i = 0
    /\ disc_i = 0
    /\ stoat_failed = {}
    /\ discord_failed = {}

InitRest ==
    /\ DISCORD_BOT_TOKEN \in {Getenv(v, "") : v \in EnvTokens}
    /\ STOAT_BOT_TOKEN \in {Getenv(v, "") : v \in EnvTokens}
    /\ runs = 1
    /\ ProcessStart
    /\ channel_webhooks = InitialWebhooks
    /\ next_wh_id = 100   \* new webhook ids are no channel ids
    /\ webhook_sends = {}
    /\ channel_sends = {}
    /\ discord_inbox = {}
    /\ stoat_inbox = {}
    /\ last = NoEvent
    /\ n_events = 0
    /\ n_passed = 0
    /\ n_sends = 0
    /\ n_err = 0
    /\ escaped = FALSE

\* the process starts in an environment that leaves an id list unset or
\* sets it to a value listing one of RunLists
Init ==
    /\ budget = [events |-> MaxEvents, in_flight |-> MaxInFlight]
    /\ _discord_raw \in {RawUnset} \cup {DiscordRawOf(l) : l \in RunLists}
    /\ _stoat_raw \in {RawUnset} \cup {StoatRawOf(l) : l \in RunLists}
    /\ InitRest

\* every pair of id lists up to the bound, for the construction of the table
InitTable ==
    /\ budget = [events |-> MaxEvents, in_flight |-> MaxInFlight]
    /\ _discord_raw \in
           {RawUnset} \cup
           {DiscordRawOf(l) : l \in SeqsUpTo(1..MaxPairs, MaxPairs)}
    /\ _stoat_raw \in
           {RawUnset} \cup
           {StoatRawOf(l) : l \in SeqsUpTo(1..MaxPairs, MaxPairs)}
    /\ InitRest

\* lines 43-44: None has no split
ParseFail ==
    /\ pc = "parse"
    /\ ~_discord_raw.set \/ ~_stoat_raw.set
    /\ pc' = "attribute_error"
    /\ UNCHANGED <<envvars, cfgvars, tablevars, regvars, defined, started,
                   stoat_pc, discord_pc, setupvars, relayvars>>

ParseOk ==
    /\ pc = "parse"
    /\ _discord_raw.set /\ _stoat_raw.set
    /\ DISCORD_CHANNEL_IDS' = ParseDiscordIds(_discord_raw)
    /\ STOAT_CHANNEL_IDS' = ParseStoatIds(_stoat_raw)
    /\ pc' = "load"
    /\ UNCHANGED <<envvars, DISCORD_BOT_TOKEN, STOAT_BOT_TOKEN, tablevars,
                   regvars, defined, started, stoat_pc, discord_pc,
                   setupvars, relayvars>>

\* ------------------------------------------------------- module-level code
\* lines 68-72: the length check raises before anything below it is bound
LoadFail ==
    /\ pc = "load"
    /\ LengthMismatch(DISCORD_CHANNEL_IDS, STOAT_CHANNEL_IDS)
    /\ pc' = "config_error"
    /\ UNCHANGED <<envvars, cfgvars, tablevars, regvars, defined, started,
                   stoat_pc, discord_pc, setupvars, relayvars>>

\* lines 74-86: PAIR_COUNT, the two maps, the two empty registries
LoadOk ==
    /\ pc = "load"
    /\ ~LengthMismatch(DISCORD_CHANNEL_IDS, STOAT_CHANNEL_IDS)
    /\ STOAT_TO_DISCORD' =
           BuildStoatToDiscord(DISCORD_CHANNEL_IDS, STOAT_CHANNEL_IDS)
    /\ DISCORD_TO_STOAT' =
           BuildDiscordToStoat(DISCORD_CHANNEL_IDS, STOAT_CHANNEL_IDS)
    /\ discord_webhooks' = EmptyMap
    /\ stoat_channels' = EmptyMap
    /\ defined' = {"PAIR_COUNT", "STOAT_TO_DISCORD", "DISCORD_TO_STOAT",
                   "discord_webhooks", "stoat_channels"}
    /\ pc' = "loaded"
    /\ UNCHANGED <<envvars, cfgvars, started, stoat_pc, discord_pc,
                   setupvars, relayvars>>

\* ------------------------------------------------------------------ main()
MainFail ==
    /\ pc = "loaded"
    /\ MissingConfiguration(DISCORD_BOT_TOKEN, STOAT_BOT_TOKEN,
                            DISCORD_CHANNEL_IDS, STOAT_CHANNEL_IDS)
    /\ pc' = "config_error"
    /\ UNCHANGED <<envvars, cfgvars, tablevars, regvars, defined, started,
                   stoat_pc, discord_pc, setupvars, relayvars>>

MainStart ==
    /\ pc = "loaded"
    /\ ~MissingConfiguration(DISCORD_BOT_TOKEN, STOAT_BOT_TOKEN,
                             DISCORD_CHANNEL_IDS, STOAT_CHANNEL_IDS)
    /\ pc' = "running"
    /\ started' = {"StoatBot", "DiscordBot"}
    /\ stoat_pc' = "connecting"
    /\ discord_pc' = "connecting"
    /\ UNCHANGED <<envvars, cfgvars, tablevars, regvars, defined, setupvars,
                   relayvars>>

\* ------------------------------------------------------ StoatBot.on_ready
StoatReadyAgain ==
    /\ stoat_pc \in {"connecting", "ready"}
    /\ stoat_pc' = "ready"
    /\ stoat_i' = 1
    /\ UNCHANGED <<envvars, cfgvars, tablevars, regvars, defined, pc,
                   started, discord_pc, disc_i, stoat_failed, discord_failed,
                   channel_webhooks, next_wh_id, relayvars>>

StoatReady ==
    /\ stoat_pc = "connecting"
    /\ stoat_pc' = "ready"
    /\ stoat_i' = 1
    /\ UNCHANGED <<envvars, cfgvars, tablevars, regvars, defined, pc,
                   started, discord_pc, disc_i, stoat_failed, discord_failed,
                   channel_webhooks, next_wh_id, relayvars>>

\* ch = await self.fetch_channel(stoat_id); stoat_channels[stoat_id] = ch
StoatFetchOk ==
    /\ stoat_pc = "ready"
    /\ stoat_i \in 1..Len(STOAT_CHANNEL_IDS)
    /\ LET stoat_id == STOAT_CHANNEL_IDS[stoat_i]
       IN  stoat_channels' = Put(stoat_channels, stoat_id, [id |-> stoat_id])
    /\ stoat_i' = stoat_i + 1
    /\ UNCHANGED <<envvars, cfgvars, tablevars, discord_webhooks, lifevars,
                   disc_i, stoat_failed, discord_failed, channel_webhooks,
                   next_wh_id, relayvars>>

\* except Exception as e: logger.error(...)
StoatFetchFailRetry ==
    /\ stoat_pc = "ready"
    /\ stoat_i \in 1..Len(STOAT_CHANNEL_IDS)
    /\ stoat_failed' = stoat_failed \cup {STOAT_CHANNEL_IDS[stoat_i]}
    /\ stoat_i' = stoat_i
    /\ UNCHANGED <<envvars, cfgvars, tablevars, regvars, lifevars, disc_i,
                   discord_failed, channel_webhooks, next_wh_id, relayvars>>

StoatFetchFail ==
    /\ stoat_pc = "ready"
    /\ stoat_i \in 1..Len(STOAT_CHANNEL_IDS)
    /\ stoat_failed' = stoat_failed \cup {STOAT_CHANNEL_IDS[stoat_i]}
    /\ stoat_i' = stoat_i + 1
    /\ UNCHANGED <<envvars, cfgvars, tablevars, regvars, lifevars, disc_i,
                   discord_failed, channel_webhooks, next_wh_id, relayvars>>

\* --------------------------------------------- DiscordBot._setup_webhooks
\* await self.wait_until_ready() returns
DiscordReady ==
    /\ discord_pc = "connecting"
    /\ discord_pc' = "ready"
    /\ disc_i' = 1
    /\ UNCHANGED <<envvars, cfgvars, tablevars, regvars, defined, pc,
                   started, stoat_pc, stoat_i, stoat_failed, discord_failed,
                   channel_webhooks, next_wh_id, relayvars>>

\* for wh in await channel.webhooks(): if wh.user == self.user: ... break
OwnedIndexesNone(whs) == {}

OwnedIndexes(whs) == {k \in DOMAIN whs : whs[k].user = DiscordUser}

FirstOwned(whs) ==
    whs[CHOOSE k \in OwnedIndexes(whs) : \A j \in OwnedIndexes(whs) : k <= j]

DiscordSetupReuse ==
    /\ discord_pc = "ready"
    /\ disc_i \in 1..Len(DISCORD_CHANNEL_IDS)
    /\ LET discord_id == DISCORD_CHANNEL_IDS[disc_i]
           whs        == channel_webhooks[discord_id]
       IN  /\ OwnedIndexes(whs) # {}
           /\ discord_webhooks' =
                  Put(discord_webhooks, discord_id, FirstOwned(whs))
    /\ disc_i' = disc_i + 1
    /\ UNCHANGED <<envvars, cfgvars, tablevars, stoat_channels, lifevars,
                   stoat_i, stoat_failed, discord_failed, channel_webhooks,
                   next_wh_id, relayvars>>

\* else: wh = await channel.create_webhook(name="Stoat Bridge")
DiscordSetupCreate ==
    /\ discord_pc = "ready"
    /\ disc_i \in 1..Len(DISCORD_CHANNEL_IDS)
    /\ LET discord_id == DISCORD_CHANNEL_IDS[disc_i]
           whs        == channel_webhooks[discord_id]
           wh         == [id |-> next_wh_id, user |-> DiscordUser,
                          channel |-> discord_id]
       IN  /\ OwnedIndexes(whs) = {}
           /\ channel_webhooks' =
                  [channel_webhooks EXCEPT ![discord_id] = Append(whs, wh)]
           /\ discord_webhooks' = Put(discord_webhooks, discord_id, wh)
    /\ next_wh_id' = next_wh_id + 1
    /\ disc_i' = disc_i + 1
    /\ UNCHANGED <<envvars, cfgvars, tablevars, stoat_channels, lifevars,
                   stoat_i, stoat_failed, discord_failed, relayvars>>

\* fetch_channel, channel.webhooks() or create_webhook raised
DiscordSetupFail ==
    /\ discord_pc = "ready"
    /\ disc_i \in 1..Len(DISCORD_CHANNEL_IDS)
    /\ discord_failed' = discord_failed \cup {DISCORD_CHANNEL_IDS[disc_i]}
    /\ disc_i' = disc_i + 1
    /\ UNCHANGED <<envvars, cfgvars, tablevars, regvars, lifevars, stoat_i,
                   stoat_failed, channel_webhooks, next_wh_id, relayvars>>

\* ------------------------------------------------------ a new process run
\* the process ends and is started again in the same environment: what it
\* held in memory is gone, its awaited calls with it; the webhooks Discord
\* holds stay, and Discord's ids grow with time
Restart ==
    /\ runs < MaxRuns
    /\ pc # "parse"
    /\ runs' = runs + 1
    /\ DISCORD_CHANNEL_IDS' = <<>>
    /\ STOAT_CHANNEL_IDS' = <<>>
    /\ STOAT_TO_DISCORD' = EmptyMap
    /\ DISCORD_TO_STOAT' = EmptyMap
    /\ discord_webhooks' = EmptyMap
    /\ stoat_channels' = EmptyMap
    /\ defined' = {}
    /\ pc' = "parse"
    /\ started' = {}
    /\ stoat_pc' = "off"
    /\ discord_pc' = "off"
    /\ stoat_i' = 0
    /\ disc_i' = 0
    /\ stoat_failed' = {}
    /\ discord_failed' = {}
    /\ next_wh_id' = next_wh_id + 1
    /\ webhook_sends' = {}
    /\ channel_sends' = {}
    /\ last' = NoEvent
    /\ n_events' = 0
    /\ n_passed' = 0
    /\ n_sends' = 0
    /\ n_err' = 0
    /\ escaped' = FALSE
    /\ UNCHANGED <<_discord_raw, _stoat_raw, budget, DISCORD_BOT_TOKEN,
                   STOAT_BOT_TOKEN, channel_webhooks, discord_inbox,
                   stoat_inbox>>

\* ------------------------------------------------- the relay handlers
NoReads == [discord_webhooks |-> 0, stoat_channels |-> 0]

NoSend == [target |-> "none", content |-> <<>>]

\* a return before the registry lookup
Filtered(why, r) ==
    [outcome |-> why, passed |-> FALSE, warnings |-> 0, sends |-> 0,
     reads |-> r, send |-> NoSend]

\* logger.warning(... not ready); return
NotReady(r) ==
    [outcome |-> "not_ready", passed |-> TRUE, warnings |-> 1, sends |-> 0,
     reads |-> r, send |-> NoSend]

\* await <target>.send(content=...)
Sent(target, content, r) ==
    [outcome |-> "sent", passed |-> TRUE, warnings |-> 0, sends |-> 1,
     reads |-> r, send |-> [target |-> target, content |-> content]]

\* if msg.author_id == self.me.id: return
StoatIsSelfInverted(msg) == msg.author_id # StoatMe

StoatIsSelf(msg) == msg.author_id = StoatMe

\* if stoat_id not in STOAT_TO_DISCORD: return
StoatConfigured(stoat_id) == stoat_id \in DOMAIN STOAT_TO_DISCORD

\* if not msg.content: return
HasContentNotNone(content) == content # <<"None">>

HasContent(content) == content # <<>>

\* content=msg.content[:2000]
TruncateForDiscord(content) == Slice(content, DiscordContentLimit)

\* the text is passed on whole
TruncateForStoatNone(content) == content

\* content=message.content[:2000]
TruncateForStoat(content) == Slice(content, StoatContentLimit)

\* a single webhook used for every channel
WebhookForAny(discord_id) ==
    IF DOMAIN discord_webhooks = {} THEN NoWebhook
    ELSE discord_webhooks[CHOOSE k \in DOMAIN discord_webhooks :
                              \A j \in DOMAIN discord_webhooks : k <= j]

\* webhook = discord_webhooks.get(discord_id)
WebhookFor(discord_id) == Get(discord_webhooks, discord_id, NoWebhook)

\* a channel that is not registered is addressed by its id
ChannelForLazy(stoat_id) == Get(stoat_channels, stoat_id, [id |-> stoat_id])

\* ch = stoat_channels.get(stoat_id)
ChannelFor(stoat_id) == Get(stoat_channels, stoat_id, NoChannel)

\* StoatBot.on_message_create up to its await
StoatHandle(msg) ==
    IF StoatIsSelf(msg) THEN Filtered("self", NoReads)
    ELSE IF ~StoatConfigured(msg.channel)
         THEN Filtered("unconfigured", NoReads)
    ELSE IF ~HasContent(msg.content) THEN Filtered("empty", NoReads)
    ELSE LET discord_id == STOAT_TO_DISCORD[msg.channel]
             webhook    == WebhookFor(discord_id)
             r          == [discord_webhooks |-> 1, stoat_channels |-> 0]
         IN  IF webhook = NoWebhook
             THEN NotReady(r)
             ELSE Sent(webhook, TruncateForDiscord(msg.content), r)

\* the webhook id looked up among the keys of the registry
DiscordIsEchoByKey(msg) ==
    /\ msg.webhook_id # 0
    /\ msg.webhook_id \in DOMAIN discord_webhooks

\* message.webhook_id and message.webhook_id in
\*     {wh.id for wh in discord_webhooks.values()}
DiscordIsEcho(msg) ==
    /\ msg.webhook_id # 0
    /\ msg.webhook_id \in
           {discord_webhooks[k].id : k \in DOMAIN discord_webhooks}

\* the membership test is made first
DiscordEchoReadsAlways(msg) == 1

\* the right operand of "and" is evaluated only for a truthy webhook_id
DiscordEchoReads(msg) == IF msg.webhook_id # 0 THEN 1 ELSE 0

\* if discord_id not in DISCORD_TO_STOAT: return
DiscordConfigured(discord_id) == discord_id \in DOMAIN DISCORD_TO_STOAT

\* DiscordBot.on_message up to its await
DiscordHandle(msg) ==
    LET r0 == [discord_webhooks |-> DiscordEchoReads(msg),
               stoat_channels |-> 0]
    IN  IF DiscordIsEcho(msg) THEN Filtered("echo", r0)
        ELSE IF ~DiscordConfigured(msg.channel)
             THEN Filtered("unconfigured", r0)
        ELSE IF ~HasContent(msg.content) THEN Filtered("empty", r0)
        ELSE LET stoat_id == DISCORD_TO_STOAT[msg.channel]
                 ch       == ChannelFor(stoat_id)
                 r        == [r0 EXCEPT !.stoat_channels = 1]
             IN  IF ch = NoChannel
                 THEN NotReady(r)
                 ELSE Sent(ch, TruncateForStoat(msg.content), r)

\* messages other users, other bots and other webhooks post
StoatExternal ==
    [id : {0}, channel : StoatIds, author_id : {"user", StoatMe},
     content : Contents, relayed : {FALSE}]

DiscordExternal ==
    [id : {0}, channel : DiscordIds, author : {"user", DiscordUser},
     webhook_id : {0}, content : Contents, relayed : {FALSE}]
    \cup
    [id : {0}, channel : DiscordIds, author : {"webhook"},
     webhook_id : {90}, content : Contents, relayed : {FALSE}]

InFlight == Cardinality(webhook_sends) + Cardinality(channel_sends)

\* one invocation of StoatBot.on_message_create, up to the awaited send
StoatInvoke(msg) ==
    LET r == StoatHandle(msg)
    IN  /\ stoat_pc = "ready"
        /\ n_events < budget.events
        /\ r.sends > 0 => InFlight < budget.in_flight
        /\ n_events' = n_events + 1
        /\ last' = [n |-> n_events + 1, dir |-> "stoat_to_discord",
                    msg |-> msg, outcome |-> r.outcome,
                    warnings |-> r.warnings, sends |-> r.sends,
                    reads |-> r.reads]
        /\ n_passed' = IF r.passed THEN n_passed + 1 ELSE n_passed
        /\ n_sends' = n_sends + r.sends
        /\ webhook_sends' =
               IF r.sends > 0
               THEN webhook_sends \cup
                        {[n |-> n_events + 1, msg |-> msg,
                          target |-> r.send.target,
                          content |-> r.send.content]}
               ELSE webhook_sends
        /\ UNCHANGED <<envvars, cfgvars, tablevars, regvars, lifevars,
                       setupvars,
                       channel_sends, discord_inbox, n_err, escaped>>

StoatOnMessageCreate ==
    \E msg \in StoatExternal :
        /\ StoatInvoke(msg)
        /\ UNCHANGED stoat_inbox

\* a message posted on Stoat, the bridge's own post among them, comes in
\* as a message event
StoatOnEcho ==
    \E msg \in stoat_inbox :
        /\ StoatInvoke(msg)
        /\ stoat_inbox' = stoat_inbox \ {msg}

\* one invocation of DiscordBot.on_message, up to the awaited send
DiscordInvoke(msg) ==
    LET r == DiscordHandle(msg)
    IN  /\ discord_pc = "ready"
        /\ n_events < budget.events
        /\ r.sends > 0 => InFlight < budget.in_flight
        /\ n_events' = n_events + 1
        /\ last' = [n |-> n_events + 1, dir |-> "discord_to_stoat",
                    msg |-> msg, outcome |-> r.outcome,
                    warnings |-> r.warnings, sends |-> r.sends,
                    reads |-> r.reads]
        /\ n_passed' = IF r.passed THEN n_passed + 1 ELSE n_passed
        /\ n_sends' = n_sends + r.sends
        /\ channel_sends' =
               IF r.sends > 0
               THEN channel_sends \cup
                        {[n |-> n_events + 1, msg |-> msg,
                          target |-> r.send.target,
                          content |-> r.send.content]}
               ELSE channel_sends
        /\ UNCHANGED <<envvars, cfgvars, tablevars, regvars, lifevars,
                       setupvars,
                       webhook_sends, stoat_inbox, n_err, escaped>>

DiscordOnMessage ==
    \E msg \in DiscordExternal :
        /\ DiscordInvoke(msg)
        /\ UNCHANGED discord_inbox

DiscordOnEcho ==
    \E msg \in discord_inbox :
        /\ DiscordInvoke(msg)
        /\ discord_inbox' = discord_inbox \ {msg}

\* ------------------------------------------- the awaited sends resolve
\* the exception of the send is not caught
StoatSendUncaught == [errors |-> 0, escaped |-> TRUE, resend |-> 0]

\* except Exception as e: logger.error(f"Stoat -> Discord ...")
StoatSendExcept == [errors |-> 1, escaped |-> FALSE, resend |-> 0]

\* the except clause sends once more
DiscordSendRetry == [errors |-> 1, escaped |-> FALSE, resend |-> 1]

\* except Exception as e: logger.error(f"Discord -> Stoat ...")
DiscordSendExcept == [errors |-> 1, escaped |-> FALSE, resend |-> 0]

\* await webhook.send(...) returns: Discord shows the post in the webhook's
\* channel and reports it to the Discord client as a message event
WebhookSendOk ==
    \E f \in webhook_sends :
        /\ webhook_sends' = webhook_sends \ {f}
        /\ discord_inbox' = discord_inbox \cup
               {[id |-> f.n, channel |-> f.target.channel,
                 author |-> "webhook",
                 webhook_id |-> f.target.id, content |-> f.content,
                 relayed |-> TRUE]}
        /\ UNCHANGED <<envvars, cfgvars, tablevars, regvars, lifevars,
                       setupvars,
                       channel_sends, stoat_inbox, last, n_events, n_passed,
                       n_sends, n_err, escaped>>

WebhookSendFail ==
    \E f \in webhook_sends :
        /\ webhook_sends' = webhook_sends \ {f}
        /\ n_err' = n_err + StoatSendExcept.errors
        /\ escaped' = (escaped \/ StoatSendExcept.escaped)
        /\ n_sends' = n_sends + StoatSendExcept.resend
        /\ UNCHANGED <<envvars, cfgvars, tablevars, regvars, lifevars,
                       setupvars,
                       channel_sends, discord_inbox, stoat_inbox, last,
                       n_events, n_passed>>

\* await ch.send(...) returns: Stoat shows the post, written by the bot
\* under a masquerade, and reports it to the Stoat client
ChannelSendOk ==
    \E f \in channel_sends :
        /\ channel_sends' = channel_sends \ {f}
        /\ stoat_inbox' = stoat_inbox \cup
               {[id |-> f.n, channel |-> f.target.id, author_id |-> StoatMe,
                 content |-> f.content, relayed |-> TRUE]}
        /\ UNCHANGED <<envvars, cfgvars, tablevars, regvars, lifevars,
                       setupvars,
                       webhook_sends, discord_inbox, last, n_events,
                       n_passed, n_sends, n_err, escaped>>

ChannelSendFail ==
    \E f \in channel_sends :
        /\ channel_sends' = channel_sends \ {f}
        /\ n_err' = n_err + DiscordSendExcept.errors
        /\ escaped' = (escaped \/ DiscordSendExcept.escaped)
        /\ n_sends' = n_sends + DiscordSendExcept.resend
        /\ UNCHANGED <<envvars, cfgvars, tablevars, regvars, lifevars,
                       setupvars,
                       webhook_sends, discord_inbox, stoat_inbox, last,
                       n_events, n_passed>>

Next ==
    \/ ParseFail
    \/ ParseOk
    \/ LoadFail \/ LoadOk \/ MainFail \/ MainStart
    \/ StoatReady \/ StoatFetchOk \/ StoatFetchFail
    \/ DiscordReady \/ DiscordSetupReuse \/ DiscordSetupCreate
    \/ DiscordSetupFail
    \/ StoatOnMessageCreate \/ StoatOnEcho
    \/ DiscordOnMessage \/ DiscordOnEcho
    \/ WebhookSendOk \/ WebhookSendFail
    \/ ChannelSendOk \/ ChannelSendFail

Spec == Init /\ [][Next]_vars

\* two channel pairs, explored with one more awaited send outstanding at
\* the same time, so that two sends of one handler are pending together
InitOrder ==
    /\ budget = [events |-> MaxEvents, in_flight |-> MaxInFlight + 1]
    /\ _discord_raw \in {RawUnset, DiscordRawOf(<<1>>), DiscordRawOf(<<1, 2>>)}
    /\ _stoat_raw = StoatRawOf(<<1, 2>>)
    /\ InitRest

SpecOrder == InitOrder /\ [][Next]_vars

\* id lists that name a channel twice: once on the Discord side, once on
\* the Stoat side, and (three pairs, explored for DupEvents invocations) on
\* both sides at different positions; and an unequal and an unset list
DupConfigurations ==
    { <<DiscordRawOf(<<1, 1>>),    StoatRawOf(<<1, 2>>),    MaxEvents>>,
      <<DiscordRawOf(<<1, 2>>),    StoatRawOf(<<1, 1>>),    MaxEvents>>,
      <<DiscordRawOf(<<1, 1, 2>>), StoatRawOf(<<1, 2, 1>>), DupEvents>>,
      <<DiscordRawOf(<<1, 1, 2>>), StoatRawOf(<<1, 2>>),    DupEvents>>,
      <<RawUnset,                  StoatRawOf(<<1, 2>>),    DupEvents>> }

InitDup ==
    /\ \E c \in DupConfigurations :
           /\ _discord_raw = c[1]
           /\ _stoat_raw = c[2]
           /\ budget = [events |-> c[3], in_flight |-> MaxInFlight]
    /\ InitRest

SpecDup == InitDup /\ [][Next]_vars

\* ------------------------------------------------- messages that arrive
\* messages of users, of the bots and of a foreign webhook, with the short
\* text, are posted while the client is connected and wait for its dispatch
LiveStoatMessages ==
    {m \in StoatExternal : TextLen(m.content) = ShortLen}
LiveDiscordMessages ==
    {m \in DiscordExternal : TextLen(m.content) = ShortLen}

\* the explored invocations suffice for the messages waiting, one more,
\* and the posts that the bridge makes for them
ArrivalRoom ==
    LET waiting == {m \in stoat_inbox \cup discord_inbox : ~m.relayed}
        echoes  == {m \in stoat_inbox \cup discord_inbox : m.relayed}
    IN  n_events + 2 * (Cardinality(waiting) + 1) + Cardinality(echoes)
            + InFlight <= budget.events

StoatArrive ==
    \E msg \in LiveStoatMessages :
        /\ stoat_pc = "ready"
        /\ msg \notin stoat_inbox
        /\ ArrivalRoom
        /\ stoat_inbox' = stoat_inbox \cup {msg}
        /\ UNCHANGED <<envvars, cfgvars, tablevars, regvars, lifevars,
                       setupvars, webhook_sends, channel_sends,
                       discord_inbox, last, n_events, n_passed, n_sends,
                       n_err, escaped>>

DiscordArrive ==
    \E msg \in LiveDiscordMessages :
        /\ discord_pc = "ready"
        /\ msg \notin discord_inbox
        /\ ArrivalRoom
        /\ discord_inbox' = discord_inbox \cup {msg}
        /\ UNCHANGED <<envvars, cfgvars, tablevars, regvars, lifevars,
                       setupvars, webhook_sends, channel_sends,
                       stoat_inbox, last, n_events, n_passed, n_sends,
                       n_err, escaped>>

\* one channel pair whose webhook is created, one whose webhook is reused,
\* and an unequal and an unset list
LiveConfigurations ==
    { <<DiscordRawOf(<<1>>),    StoatRawOf(<<1>>)>>,
      <<DiscordRawOf(<<2>>),    StoatRawOf(<<2>>)>>,
      <<DiscordRawOf(<<1, 2>>), StoatRawOf(<<1>>)>>,
      <<RawUnset,               StoatRawOf(<<1>>)>> }

InitLive ==
    /\ \E c \in LiveConfigurations :
           _discord_raw = c[1] /\ _stoat_raw = c[2]
    /\ budget = [events |-> LiveEvents, in_flight |-> MaxInFlight + 1]
    /\ InitRest

NextLive ==
    \/ ParseFail \/ ParseOk
    \/ LoadFail \/ LoadOk \/ MainFail \/ MainStart
    \/ StoatReady \/ StoatFetchOk \/ StoatFetchFail
    \/ DiscordReady \/ DiscordSetupReuse \/ DiscordSetupCreate
    \/ DiscordSetupFail
    \/ StoatArrive \/ DiscordArrive
    \/ StoatOnEcho \/ DiscordOnEcho
    \/ WebhookSendOk \/ WebhookSendFail
    \/ ChannelSendOk \/ ChannelSendFail

\* each client dispatches the message events it has received
SpecLive ==
    /\ InitLive
    /\ [][NextLive]_vars
    /\ WF_vars(StoatOnEcho)
    /\ WF_vars(DiscordOnEcho)

\* the construction of the Pair Table and the start-up checks alone
NextTable ==
    ParseFail \/ ParseOk \/ LoadFail \/ LoadOk \/ MainFail \/ MainStart

SpecTable == InitTable /\ [][NextTable]_vars

\* start-up and the two setup routines over several process runs
NextSetup ==
    \/ ParseFail \/ ParseOk
    \/ LoadFail \/ LoadOk \/ MainFail \/ MainStart
    \/ StoatReady \/ StoatFetchOk \/ StoatFetchFail
    \/ DiscordReady \/ DiscordSetupReuse \/ DiscordSetupCreate
    \/ DiscordSetupFail
    \/ Restart

SpecSetup == Init /\ [][NextSetup]_vars

\* ===================================================================
\* Properties
\* ===================================================================
\* position i of the configuration pairs Discord channel d with Stoat
\* channel s
PairedAt(d, s) ==
    \E i \in 1..Min(Len(DISCORD_CHANNEL_IDS), Len(STOAT_CHANNEL_IDS)) :
        DISCORD_CHANNEL_IDS[i] = d /\ STOAT_CHANNEL_IDS[i] = s

\* C1: every outbound send goes to the send target registered for the
\* channel the Pair Table pairs with the message's source channel, and
\* that target posts into a channel the configuration pairs with the
\* source; a post of the bridge only ever appears in the paired channel.
C1_PerPairRouting ==
    /\ \A f \in webhook_sends :
           /\ f.msg.channel \in DOMAIN STOAT_TO_DISCORD
           /\ STOAT_TO_DISCORD[f.msg.channel] \in DOMAIN discord_webhooks
           /\ f.target = discord_webhooks[STOAT_TO_DISCORD[f.msg.channel]]
           /\ f.target.channel = STOAT_TO_DISCORD[f.msg.channel]
           /\ PairedAt(f.target.channel, f.msg.channel)
    /\ \A f \in channel_sends :
           /\ f.msg.channel \in DOMAIN DISCORD_TO_STOAT
           /\ DISCORD_TO_STOAT[f.msg.channel] \in DOMAIN stoat_channels
           /\ f.target = stoat_channels[DISCORD_TO_STOAT[f.msg.channel]]
           /\ f.target.id = DISCORD_TO_STOAT[f.msg.channel]
           /\ PairedAt(f.msg.channel, f.target.id)
    /\ \A m \in discord_inbox : \E s \in StoatIds : PairedAt(m.channel, s)
    /\ \A m \in stoat_inbox : \E d \in DiscordIds : PairedAt(d, m.channel)

\* two different pairs are configured, a Stoat message of the second pair
\* was posted into Discord channel 2 and a Discord message of the second
\* pair is on its way to Stoat channel "sb"
C1_Witness ==
    /\ DISCORD_CHANNEL_IDS = <<1, 2>>
    /\ STOAT_CHANNEL_IDS = <<"sa", "sb">>
    /\ \E m \in discord_inbox : m.channel = 2 /\ m.webhook_id = 91
    /\ \E f \in channel_sends : f.msg.channel = 2 /\ f.target.id = "sb"

\* C2: the handler invoked for a message the bridge itself posted (through
\* a registered Discord webhook, or as the Stoat bot under a masquerade)
\* makes no outbound send; no send in flight relays such a message.
C2_NoFeedbackLoop ==
    /\ (last.n > 0 /\ last.msg.relayed) =>
           /\ last.sends = 0
           /\ last.outcome \in {"echo", "self"}
    /\ \A f \in webhook_sends : ~f.msg.relayed
    /\ \A f \in channel_sends : ~f.msg.relayed

\* the Discord handler has just seen a post of one of its own webhooks
C2_Witness ==
    /\ last.dir = "discord_to_stoat"
    /\ last.msg.relayed
    /\ last.msg.webhook_id \in
           {discord_webhooks[k].id : k \in DOMAIN discord_webhooks}
    /\ last.msg.channel \in DOMAIN DISCORD_TO_STOAT
    /\ DISCORD_TO_STOAT[last.msg.channel] \in DOMAIN stoat_channels
    /\ last.outcome = "echo"

\* C3: in both directions a message whose author is the relaying bot's own
\* identity is never forwarded.
C3_OwnMessagesNeverForwarded ==
    /\ (last.dir = "stoat_to_discord" /\ last.msg.author_id = StoatMe) =>
           last.sends = 0
    /\ (last.dir = "discord_to_stoat" /\ last.msg.author = DiscordUser) =>
           last.sends = 0

\* ------------------------------------------------------------------
TableBuilt == "STOAT_TO_DISCORD" \in defined /\ "DISCORD_TO_STOAT" \in defined

Positions == 1..Len(DISCORD_CHANNEL_IDS)

\* both lookups return the partner of every position and know no other id
ResolvesEveryPosition ==
    /\ \A i \in Positions :
           /\ DISCORD_CHANNEL_IDS[i] \in DOMAIN DISCORD_TO_STOAT
           /\ DISCORD_TO_STOAT[DISCORD_CHANNEL_IDS[i]] = STOAT_CHANNEL_IDS[i]
           /\ STOAT_CHANNEL_IDS[i] \in DOMAIN STOAT_TO_DISCORD
           /\ STOAT_TO_DISCORD[STOAT_CHANNEL_IDS[i]] = DISCORD_CHANNEL_IDS[i]
    /\ DOMAIN DISCORD_TO_STOAT = {DISCORD_CHANNEL_IDS[i] : i \in Positions}
    /\ DOMAIN STOAT_TO_DISCORD = {STOAT_CHANNEL_IDS[i] : i \in Positions}

\* no id is listed with two different partners
OnePartnerEach ==
    \A i, j \in Positions :
        (DISCORD_CHANNEL_IDS[i] = DISCORD_CHANNEL_IDS[j])
            <=> (STOAT_CHANNEL_IDS[i] = STOAT_CHANNEL_IDS[j])

\* C4 as stated: for all equal-length id lists the table built from them
\* resolves every position to its partner in both directions and resolves
\* absent for every other id.
C4_AllListsResolve == TableBuilt => ResolvesEveryPosition

\* C4 amended: the same for all equal-length id lists in which no id is
\* listed with two different partners.
C4_ListsWithOnePartnerResolve ==
    (TableBuilt /\ OnePartnerEach) => ResolvesEveryPosition

\* the table of two different pairs has been built
C4_Witness ==
    /\ TableBuilt
    /\ Len(DISCORD_CHANNEL_IDS) = 2
    /\ DISCORD_CHANNEL_IDS[1] # DISCORD_CHANNEL_IDS[2]
    /\ STOAT_CHANNEL_IDS[1] # STOAT_CHANNEL_IDS[2]
    /\ DISCORD_TO_STOAT[DISCORD_CHANNEL_IDS[2]] = STOAT_CHANNEL_IDS[2]

\* C5: with id lists of unequal length the start ends in the configuration
\* error and nothing is built: no lookup map, no registry, no client.
C5_UnequalLengthsFail ==
    (Len(DISCORD_CHANNEL_IDS) # Len(STOAT_CHANNEL_IDS) /\ pc # "load") =>
        /\ pc = "config_error"
        /\ defined = {}
        /\ STOAT_TO_DISCORD = EmptyMap
        /\ DISCORD_TO_STOAT = EmptyMap
        /\ discord_webhooks = EmptyMap
        /\ stoat_channels = EmptyMap
        /\ started = {}
        /\ stoat_pc = "off"
        /\ discord_pc = "off"

\* the length check has refused one Discord id against two Stoat ids
C5_Witness ==
    /\ pc = "config_error"
    /\ Len(DISCORD_CHANNEL_IDS) = 1
    /\ Len(STOAT_CHANNEL_IDS) = 2
    /\ DISCORD_BOT_TOKEN # ""
    /\ STOAT_BOT_TOKEN # ""

\* ------------------------------------------------------------------
\* a handler has been invoked in this step
Invoked == n_events' = n_events + 1

RegisteredWebhookIds ==
    {discord_webhooks[k].id : k \in DOMAIN discord_webhooks}

\* the message passes the filters of on_message_create
StoatPasses(msg) ==
    /\ msg.author_id # StoatMe
    /\ msg.channel \in DOMAIN STOAT_TO_DISCORD
    /\ msg.content # <<>>

\* the message passes the filters of on_message
DiscordPasses(msg) ==
    /\ ~(msg.webhook_id # 0 /\ msg.webhook_id \in RegisteredWebhookIds)
    /\ msg.channel \in DOMAIN DISCORD_TO_STOAT
    /\ msg.content # <<>>

\* the handler invoked in this step found its destination unregistered
InvokedNotReady ==
    /\ Invoked
    /\ \/ /\ last'.dir = "stoat_to_discord"
          /\ StoatPasses(last'.msg)
          /\ STOAT_TO_DISCORD[last'.msg.channel] \notin DOMAIN discord_webhooks
       \/ /\ last'.dir = "discord_to_stoat"
          /\ DiscordPasses(last'.msg)
          /\ DISCORD_TO_STOAT[last'.msg.channel] \notin DOMAIN stoat_channels

\* the handler invoked in this step found its destination registered
InvokedReady ==
    /\ Invoked
    /\ \/ /\ last'.dir = "stoat_to_discord"
          /\ StoatPasses(last'.msg)
          /\ STOAT_TO_DISCORD[last'.msg.channel] \in DOMAIN discord_webhooks
       \/ /\ last'.dir = "discord_to_stoat"
          /\ DiscordPasses(last'.msg)
          /\ DISCORD_TO_STOAT[last'.msg.channel] \in DOMAIN stoat_channels

\* a send appears only in the invocation for its own message
SendsOnlyByInvocation ==
    /\ \A f \in webhook_sends' \ webhook_sends :
           Invoked /\ f.n = n_events' /\ f.msg = last'.msg
    /\ \A f \in channel_sends' \ channel_sends :
           Invoked /\ f.n = n_events' /\ f.msg = last'.msg

\* C6: a message that passes the filters while the registry has no send
\* target for its destination is dropped with exactly one warning, no
\* outbound send and no exception, and it is kept nowhere: a send is only
\* ever issued by the invocation for its own message.
C6_NotReadyDrop ==
    [][ /\ InvokedNotReady =>
              /\ last'.outcome = "not_ready"
              /\ last'.warnings = 1
              /\ last'.sends = 0
              /\ n_sends' = n_sends
              /\ webhook_sends' = webhook_sends
              /\ channel_sends' = channel_sends
              /\ discord_inbox' \subseteq discord_inbox
              /\ stoat_inbox' \subseteq stoat_inbox
              /\ ~escaped'
        /\ SendsOnlyByInvocation ]_vars

\* a Stoat message was dropped as not ready, the webhook of its
\* destination has been registered since, and nothing is on its way
C6_Witness ==
    /\ last.dir = "stoat_to_discord"
    /\ last.outcome = "not_ready"
    /\ last.warnings = 1
    /\ STOAT_TO_DISCORD[last.msg.channel] \in DOMAIN discord_webhooks
    /\ webhook_sends = {}
    /\ channel_sends = {}
    /\ n_sends = 0

\* an awaited send has raised in this step
SendFailed ==
    \/ /\ \E f \in webhook_sends : webhook_sends' = webhook_sends \ {f}
       /\ discord_inbox' = discord_inbox
    \/ /\ \E f \in channel_sends : channel_sends' = channel_sends \ {f}
       /\ stoat_inbox' = stoat_inbox

\* C7: a failed send logs exactly one error, lets no exception out of the
\* handler and leaves the Pair Table, both registries and both clients as
\* they were; an event that arrives after a failure, passes the filters and
\* finds its target registered is forwarded as usual.
C7_DeliveryFailureContained ==
    [][ /\ SendFailed =>
              /\ n_err' = n_err + 1
              /\ ~escaped'
              /\ n_sends' = n_sends
              /\ UNCHANGED <<tablevars, regvars, lifevars, setupvars>>
        /\ (n_err > 0 /\ InvokedReady) =>
              /\ last'.outcome = "sent"
              /\ last'.sends = 1
              /\ n_sends' = n_sends + 1
              /\ \/ \E f \in webhook_sends' \ webhook_sends :
                        f.msg = last'.msg
                 \/ \E f \in channel_sends' \ channel_sends :
                        f.msg = last'.msg ]_vars

\* the first send failed, the second event is on its way
C7_Witness ==
    /\ n_err = 1
    /\ ~escaped
    /\ last.n = 2
    /\ last.outcome = "sent"
    /\ \/ \E f \in webhook_sends : f.n = 2
       \/ \E f \in channel_sends : f.n = 2

\* C8: an event causes at most one send, a forwarded one exactly one; a
\* send is issued only by a handler invocation, never after a failure; the
\* sends never outnumber the events that passed the filters.
C8_AtMostOnce ==
    /\ [](/\ n_sends <= n_passed
          /\ n_passed <= n_events
          /\ last.sends <= 1
          /\ last.outcome = "sent" => last.sends = 1
          /\ \A f, g \in webhook_sends : f.n = g.n => f = g
          /\ \A f, g \in channel_sends : f.n = g.n => f = g
          /\ \A f \in webhook_sends : \A g \in channel_sends : f.n # g.n)
    /\ [][n_sends' # n_sends => (Invoked /\ n_sends' = n_sends + 1)]_vars

\* one event was forwarded, its send failed, and nothing was sent again
C8_Witness ==
    /\ n_err = 1
    /\ n_sends = 1
    /\ n_passed = 1
    /\ webhook_sends = {}
    /\ channel_sends = {}
    /\ discord_inbox = {}
    /\ stoat_inbox = {}

\* the first k characters, or all when there are fewer
Prefix(chars, k) == SubSeq(chars, 1, Min(Len(chars), k))

\* the characters of the inbound texts and their first 2000 characters,
\* written out once
First2000OfContents == [c \in Contents |-> Prefix(Expand(c), 2000)]

First2000(text) ==
    IF text \in Contents THEN First2000OfContents[text]
    ELSE Prefix(Expand(text), 2000)

\* the characters of a text of at most two runs, without recursion
Chars2(text) ==
    LET n1 == IF Len(text) >= 1 THEN text[1].n ELSE 0
        n2 == IF Len(text) >= 2 THEN text[2].n ELSE 0
    IN  [i \in 1..(n1 + n2) |-> IF i <= n1 THEN text[1].ch ELSE text[2].ch]

\* the long text cut to 2000 characters, as its runs
LongCut == <<Run("a", LongHead), Run("b", 2000 - LongHead)>>
KnownTexts == Contents \cup {LongCut}

\* the pairs of a known sent text and an inbound text of which it is the
\* first 2000 characters, compared once
First2000Pairs ==
    {p : p \in {q \in KnownTexts \X Contents :
                    Chars2(q[1]) = Prefix(Chars2(q[2]), 2000)}}

IsFirst2000(sent, inbound) ==
    IF sent \in KnownTexts /\ inbound \in Contents
    THEN <<sent, inbound>> \in First2000Pairs
    ELSE Expand(sent) = First2000(inbound)

\* C9: every send a handler issues carries exactly the first
\* min(len, 2000) characters of the inbound text, in order, in both
\* directions, and a forwarded message is sent by exactly one call.
C9_ContentTruncation ==
    [][ /\ \A f \in webhook_sends' \ webhook_sends :
               IsFirst2000(f.content, f.msg.content)
        /\ \A f \in channel_sends' \ channel_sends :
               IsFirst2000(f.content, f.msg.content)
        /\ (Invoked /\ last'.outcome = "sent") =>
               Cardinality(webhook_sends' \ webhook_sends)
                   + Cardinality(channel_sends' \ channel_sends) = 1 ]_vars

\* a Discord message of 3000 or more characters on channel 1 caused one
\* send, to the handle of "sa", of 2000 characters
C9_Witness ==
    /\ last.dir = "discord_to_stoat"
    /\ last.sends = 1
    /\ \E f \in channel_sends :
           /\ f.n = last.n
           /\ f.msg.channel = 1
           /\ f.target = stoat_channels["sa"]
           /\ TextLen(f.msg.content) >= 3000
           /\ TextLen(f.content) = 2000

\* the last handled message came in on a channel without a table entry
LastUnconfigured ==
    \/ /\ last.dir = "stoat_to_discord"
       /\ last.msg.channel \notin DOMAIN STOAT_TO_DISCORD
    \/ /\ last.dir = "discord_to_stoat"
       /\ last.msg.channel \notin DOMAIN DISCORD_TO_STOAT

\* C10 as stated: a message on a channel without a table entry causes no
\* send and no read of either registry.
C10_UnconfiguredNoReads ==
    LastUnconfigured => (last.sends = 0 /\ last.reads = NoReads)

\* C10 amended: such a message causes no send and no lookup of a send
\* target; the only registry access is the echo check of on_message, which
\* reads discord_webhooks once exactly when the message has a webhook id.
C10_UnconfiguredNoLookup ==
    LastUnconfigured =>
        /\ last.sends = 0
        /\ last.outcome \in {"self", "unconfigured"}
        /\ last.reads.stoat_channels = 0
        /\ last.reads.discord_webhooks =
               IF last.dir = "discord_to_stoat" /\ last.msg.webhook_id # 0
               THEN 1 ELSE 0

\* a Discord message of another application's webhook on an unconfigured
\* channel was dropped after the echo check, while both registries had
\* entries
C10_Witness ==
    /\ last.dir = "discord_to_stoat"
    /\ last.msg.channel \notin DOMAIN DISCORD_TO_STOAT
    /\ last.msg.webhook_id # 0
    /\ last.msg.content # <<>>
    /\ stoat_channels # EmptyMap
    /\ discord_webhooks # EmptyMap
    /\ last.outcome = "unconfigured"
    /\ last.sends = 0
    /\ last.reads = [discord_webhooks |-> 1, stoat_channels |-> 0]

\* C11: a message whose text content is empty causes no outbound send, in
\* either direction, whoever wrote it, whatever its channel, and whether or
\* not the send target of its destination is registered; so no send on its
\* way and no relayed message carries empty content.
C11_EmptyContentNeverSent ==
    /\ (last.n > 0 /\ last.msg.content = <<>>) =>
           /\ last.sends = 0
           /\ last.outcome \in {"self", "echo", "unconfigured", "empty"}
    /\ \A f \in webhook_sends : f.msg.content # <<>> /\ f.content # <<>>
    /\ \A f \in channel_sends : f.msg.content # <<>> /\ f.content # <<>>
    /\ \A m \in discord_inbox \cup stoat_inbox : m.content # <<>>

\* an empty message of a user on a configured Discord channel was dropped
\* by the content check while the Stoat handle of its pair was registered
C11_Witness ==
    /\ last.dir = "discord_to_stoat"
    /\ last.msg.content = <<>>
    /\ last.msg.author = "user"
    /\ last.msg.channel \in DOMAIN DISCORD_TO_STOAT
    /\ DISCORD_TO_STOAT[last.msg.channel] \in DOMAIN stoat_channels
    /\ last.outcome = "empty"
    /\ last.sends = 0
    /\ channel_sends = {}

\* the ids an environment value lists, counted on the value itself
ListedCount(raw) ==
    Cardinality({i \in DOMAIN raw.fields : raw.fields[i].text # ""})

\* a token is missing or empty, an id list is missing or empty, or the two
\* lists differ in length
BadConfiguration ==
    \/ DISCORD_BOT_TOKEN = ""
    \/ STOAT_BOT_TOKEN = ""
    \/ ~_discord_raw.set
    \/ ~_stoat_raw.set
    \/ ListedCount(_discord_raw) = 0
    \/ ListedCount(_stoat_raw) = 0
    \/ ListedCount(_discord_raw) # ListedCount(_stoat_raw)

StartupErrors == {"config_error", "attribute_error"}

SetupDone ==
    /\ stoat_pc = "ready"
    /\ discord_pc = "ready"
    /\ stoat_i > Len(STOAT_CHANNEL_IDS)
    /\ disc_i > Len(DISCORD_CHANNEL_IDS)

ListedOnce(ids, k) == Cardinality({i \in DOMAIN ids : ids[i] = k}) = 1

\* the handler invoked in this step passes the filters and its
\* destination is in the given set of Discord ids or of Stoat ids
InvokedFor(dset, sset) ==
    /\ Invoked
    /\ \/ /\ last'.dir = "stoat_to_discord"
          /\ StoatPasses(last'.msg)
          /\ STOAT_TO_DISCORD[last'.msg.channel] \in dset
       \/ /\ last'.dir = "discord_to_stoat"
          /\ DiscordPasses(last'.msg)
          /\ DISCORD_TO_STOAT[last'.msg.channel] \in sset

DroppedNotReady ==
    /\ last'.outcome = "not_ready"
    /\ last'.warnings = 1
    /\ last'.sends = 0
    /\ webhook_sends' \subseteq webhook_sends
    /\ channel_sends' \subseteq channel_sends

FailedOnceDiscord ==
    {d \in discord_failed : ListedOnce(DISCORD_CHANNEL_IDS, d)}
FailedOnceStoat ==
    {s \in stoat_failed : ListedOnce(STOAT_CHANNEL_IDS, s)}

StoatSetupDone ==
    stoat_pc = "ready" /\ stoat_i > Len(STOAT_CHANNEL_IDS)
DiscordSetupDone ==
    discord_pc = "ready" /\ disc_i > Len(DISCORD_CHANNEL_IDS)

\* C14 as stated: a relay handler runs only when both registry population
\* routines have finished, and once a handler has run no registry entry is
\* added or changed.
C14_SetupBeforeRelay ==
    [][ /\ Invoked => SetupDone
        /\ n_events > 0 => UNCHANGED regvars ]_vars

\* C14 amended: a routine that has finished stays finished and its
\* registry does not change any more, so once both have finished no entry
\* is added or changed; before that a registry grows by the step of its own
\* routine only, one entry of the current list position at a time, also
\* between handler invocations.
C14_RegistriesFrozenAfterSetup ==
    [][ /\ StoatSetupDone =>
              StoatSetupDone' /\ stoat_channels' = stoat_channels
        /\ DiscordSetupDone =>
              DiscordSetupDone' /\ discord_webhooks' = discord_webhooks
        /\ stoat_channels' # stoat_channels =>
              /\ stoat_pc = "ready"
              /\ stoat_i \in 1..Len(STOAT_CHANNEL_IDS)
              /\ stoat_i' = stoat_i + 1
              /\ DOMAIN stoat_channels' =
                     DOMAIN stoat_channels \cup {STOAT_CHANNEL_IDS[stoat_i]}
        /\ discord_webhooks' # discord_webhooks =>
              /\ discord_pc = "ready"
              /\ disc_i \in 1..Len(DISCORD_CHANNEL_IDS)
              /\ disc_i' = disc_i + 1
              /\ DOMAIN discord_webhooks' =
                     DOMAIN discord_webhooks
                         \cup {DISCORD_CHANNEL_IDS[disc_i]} ]_vars

\* a Discord message was handled and dropped as not ready while
\* StoatBot.on_ready had not fetched its destination; the routine has
\* registered the destination since and both routines have finished
C14_Witness ==
    /\ last.dir = "discord_to_stoat"
    /\ last.outcome = "not_ready"
    /\ DISCORD_TO_STOAT[last.msg.channel] \in DOMAIN stoat_channels
    /\ SetupDone

\* C15: the events of one platform are handled one at a time in arrival
\* order: when the handler of a message that is forwarded starts, no send
\* of an earlier message of the same platform is still awaited, and the
\* sends of one platform resolve in the order of their messages.
C15_PerPlatformOrdering ==
    [][ /\ (Invoked /\ last'.dir = "stoat_to_discord" /\ last'.sends = 1)
               => webhook_sends = {}
        /\ (Invoked /\ last'.dir = "discord_to_stoat" /\ last'.sends = 1)
               => channel_sends = {}
        /\ \A f \in webhook_sends \ webhook_sends' :
               \A g \in webhook_sends' : f.n < g.n
        /\ \A f \in channel_sends \ channel_sends' :
               \A g \in channel_sends' : f.n < g.n ]_vars

\* the webhooks of the bot's own user that Discord holds for a channel
BotOwned(d) ==
    {k \in DOMAIN channel_webhooks[d] :
         channel_webhooks[d][k].user = DiscordUser}

HeldBy(d) == {channel_webhooks[d][k] : k \in DOMAIN channel_webhooks[d]}

\* C16: over any number of process runs a channel never holds more than
\* one webhook of the bot, and a registered webhook is one of the bot that
\* its channel holds; setup creates a webhook only for a channel that
\* holds none of the bot, registering the new one, and otherwise registers
\* one the channel already holds, creating nothing.
C16_WebhookReuse ==
    /\ [](\A d \in DiscordIds :
              /\ Cardinality(BotOwned(d)) <= 1
              /\ d \in DOMAIN discord_webhooks =>
                     /\ discord_webhooks[d].user = DiscordUser
                     /\ discord_webhooks[d] \in HeldBy(d))
    /\ [][\A d \in DiscordIds :
              /\ channel_webhooks'[d] # channel_webhooks[d] =>
                     /\ BotOwned(d) = {}
                     /\ Len(channel_webhooks'[d]) =
                            Len(channel_webhooks[d]) + 1
                     /\ HeldBy(d) \subseteq HeldBy(d)'
                     /\ discord_webhooks'[d] \in HeldBy(d)' \ HeldBy(d)
              /\ (BotOwned(d) # {} /\ discord_webhooks' # discord_webhooks
                    /\ d \in DOMAIN discord_webhooks'
                    /\ d \notin DOMAIN discord_webhooks) =>
                     /\ discord_webhooks'[d] \in HeldBy(d)
                     /\ channel_webhooks' = channel_webhooks ]_vars

\* the second run has registered, for channel 1, the webhook that the
\* first run created there; the channel holds this one webhook of the bot
C16_Witness ==
    /\ runs = 2
    /\ 1 \in DOMAIN discord_webhooks
    /\ discord_webhooks[1].id = 100
    /\ next_wh_id > 101
    /\ Cardinality(BotOwned(1)) = 1
    /\ DiscordSetupDone

\* a step of a relay handler: an invocation up to its send, or the
\* resolution of its awaited send
RelayStep ==
    \/ Invoked
    \/ webhook_sends' # webhook_sends
    \/ channel_sends' # channel_sends
    \/ n_err' # n_err

ListedIds(ids) == {ids[i] : i \in DOMAIN ids}

\* C17: a relay handler step, whether the message is dropped, forwarded or
\* its send fails, leaves both maps of the Pair Table and both registries
\* as they are; discord_webhooks changes only in a step of
\* _setup_webhooks and stoat_channels only in a step of StoatBot.on_ready,
\* each under the id of the list position the loop is at; no entry is
\* ever removed and every key is an id of the configured list.
C17_SingleWriter ==
    [][ /\ RelayStep => UNCHANGED <<tablevars, regvars>>
        /\ discord_webhooks' # discord_webhooks =>
               /\ discord_pc = "ready"
               /\ disc_i \in 1..Len(DISCORD_CHANNEL_IDS)
               /\ disc_i' = disc_i + 1
               /\ stoat_i' = stoat_i
               /\ \A d \in DOMAIN discord_webhooks' :
                      \/ d = DISCORD_CHANNEL_IDS[disc_i]
                      \/ /\ d \in DOMAIN discord_webhooks
                         /\ discord_webhooks'[d] = discord_webhooks[d]
        /\ stoat_channels' # stoat_channels =>
               /\ stoat_pc = "ready"
               /\ stoat_i \in 1..Len(STOAT_CHANNEL_IDS)
               /\ stoat_i' = stoat_i + 1
               /\ disc_i' = disc_i
               /\ \A s \in DOMAIN stoat_channels' :
                      \/ s = STOAT_CHANNEL_IDS[stoat_i]
                      \/ /\ s \in DOMAIN stoat_channels
                         /\ stoat_channels'[s] = stoat_channels[s]
        /\ DOMAIN discord_webhooks \subseteq DOMAIN discord_webhooks'
        /\ DOMAIN stoat_channels \subseteq DOMAIN stoat_channels'
        /\ DOMAIN discord_webhooks' \subseteq ListedIds(DISCORD_CHANNEL_IDS)
        /\ DOMAIN stoat_channels' \subseteq ListedIds(STOAT_CHANNEL_IDS)
      ]_vars

\* with both registries holding both channels, one message was forwarded
\* and its send failed, a second one was dropped for its empty text, and
\* the registries still hold both channels
C17_Witness ==
    /\ n_err = 1
    /\ n_sends = 1
    /\ last.n = 2
    /\ last.outcome = "empty"
    /\ DOMAIN discord_webhooks = {1, 2}
    /\ DOMAIN stoat_channels = {"sa", "sb"}
    /\ DOMAIN STOAT_TO_DISCORD = {"sa", "sb"}

\* list a names the same id at positions i < j, j the last of them, with
\* different partners in list b
DuplicatedAt(a, b, i, j) ==
    /\ i \in DOMAIN a /\ j \in DOMAIN a /\ i < j
    /\ a[i] = a[j]
    /\ b[i] # b[j]
    /\ \A k \in DOMAIN a : a[k] = a[j] => k <= j

\* the lookup from the duplicated id gives the partner of position j, both
\* partners resolve back to the duplicated id, and the maps are no inverses
Overwritten(a, b, a2b, b2a, i, j) ==
    /\ a2b[a[j]] = b[j]
    /\ b2a[b[i]] = a[i]
    /\ b2a[b[j]] = a[j]
    /\ a2b[b2a[b[i]]] # b[i]

\* messages of the Stoat partner s go to the duplicated Discord channel d,
\* and no send and no relayed message goes to s
OneWayFromStoat(s, d) ==
    /\ \A f \in webhook_sends :
           f.msg.channel = s => f.target.channel = d
    /\ (/\ last.dir = "stoat_to_discord"
        /\ last.msg.channel = s
        /\ last.msg.author_id # StoatMe
        /\ last.msg.content # <<>>) =>
           /\ last.outcome \in {"sent", "not_ready"}
           /\ last.outcome = "sent" => d \in DOMAIN discord_webhooks
    /\ \A f \in channel_sends : f.target.id # s
    /\ \A m \in stoat_inbox : m.channel # s

\* the same for the Discord partner d of a duplicated Stoat channel s
OneWayFromDiscord(d, s) ==
    /\ \A f \in channel_sends :
           f.msg.channel = d => f.target.id = s
    /\ (/\ last.dir = "discord_to_stoat"
        /\ last.msg.channel = d
        /\ last.msg.webhook_id = 0
        /\ last.msg.content # <<>>) =>
           /\ last.outcome \in {"sent", "not_ready"}
           /\ last.outcome = "sent" => s \in DOMAIN stoat_channels
    /\ \A f \in webhook_sends : f.target.channel # d
    /\ \A m \in discord_inbox : m.channel # d

ListsParsed == pc \notin {"parse", "load", "attribute_error"}

\* what C18 says of the positions i < j, when once restricts it to
\* partners that their own list names once
OverwriteAt(i, j, once) ==
    /\ (/\ DuplicatedAt(DISCORD_CHANNEL_IDS, STOAT_CHANNEL_IDS, i, j)
        /\ once => /\ ListedOnce(STOAT_CHANNEL_IDS, STOAT_CHANNEL_IDS[i])
                   /\ ListedOnce(STOAT_CHANNEL_IDS, STOAT_CHANNEL_IDS[j])) =>
           /\ Overwritten(DISCORD_CHANNEL_IDS, STOAT_CHANNEL_IDS,
                          DISCORD_TO_STOAT, STOAT_TO_DISCORD, i, j)
           /\ OneWayFromStoat(STOAT_CHANNEL_IDS[i], DISCORD_CHANNEL_IDS[i])
    /\ (/\ DuplicatedAt(STOAT_CHANNEL_IDS, DISCORD_CHANNEL_IDS, i, j)
        /\ once => /\ ListedOnce(DISCORD_CHANNEL_IDS, DISCORD_CHANNEL_IDS[i])
                   /\ ListedOnce(DISCORD_CHANNEL_IDS, DISCORD_CHANNEL_IDS[j]))
         =>
           /\ Overwritten(STOAT_CHANNEL_IDS, DISCORD_CHANNEL_IDS,
                          STOAT_TO_DISCORD, DISCORD_TO_STOAT, i, j)
           /\ OneWayFromDiscord(DISCORD_CHANNEL_IDS[i], STOAT_CHANNEL_IDS[i])

\* C18 as stated: an id named at positions i < j of one list with different
\* partners raises no error; the lookup from it gives the partner of the
\* last position, both partners resolve back to it, the maps are no mutual
\* inverses, and the partner of position i is forwarded from but never
\* forwarded to.
C18_DuplicateOverwrites ==
    (ListsParsed /\ ~LengthMismatch(DISCORD_CHANNEL_IDS, STOAT_CHANNEL_IDS))
        => /\ TableBuilt
           /\ \A i, j \in Positions : OverwriteAt(i, j, FALSE)

\* C18 amended: the same, for partners that their own list names once.
C18_DuplicateOverwritesOncePartners ==
    (ListsParsed /\ ~LengthMismatch(DISCORD_CHANNEL_IDS, STOAT_CHANNEL_IDS))
        => /\ TableBuilt
           /\ \A i, j \in Positions : OverwriteAt(i, j, TRUE)

\* Discord channel 1 is listed twice, with sa and then sb: a message from
\* sa is on its way to the webhook of channel 1, the handle of sa is
\* registered, and the lookup from 1 gives sb
C18_Witness ==
    /\ DISCORD_CHANNEL_IDS = <<1, 1>>
    /\ STOAT_CHANNEL_IDS = <<"sa", "sb">>
    /\ TableBuilt
    /\ DISCORD_TO_STOAT[1] = "sb"
    /\ "sa" \in DOMAIN stoat_channels
    /\ \E f \in webhook_sends :
           f.msg.channel = "sa" /\ f.target.channel = 1

\* a Stoat message of another author than the bridge, with text, on a
\* configured channel, waits for dispatch while the webhook of its
\* destination is registered
StoatAwaitsRelay(m) ==
    /\ m \in stoat_inbox
    /\ m.author_id # StoatMe
    /\ m.content # <<>>
    /\ m.channel \in DOMAIN STOAT_TO_DISCORD
    /\ STOAT_TO_DISCORD[m.channel] \in DOMAIN discord_webhooks

\* its handler has issued one send, to that webhook
StoatRelayed(m) ==
    /\ last.dir = "stoat_to_discord"
    /\ last.msg = m
    /\ last.outcome = "sent"
    /\ last.sends = 1
    /\ Cardinality({f \in webhook_sends : f.n = last.n}) = 1
    /\ \E f \in webhook_sends :
           /\ f.n = last.n
           /\ f.msg = m
           /\ f.target = discord_webhooks[STOAT_TO_DISCORD[m.channel]]

\* the same for a Discord message of a user or of a foreign webhook
DiscordAwaitsRelay(m) ==
    /\ m \in discord_inbox
    /\ m.author # DiscordUser
    /\ m.webhook_id \notin RegisteredWebhookIds
    /\ m.content # <<>>
    /\ m.channel \in DOMAIN DISCORD_TO_STOAT
    /\ DISCORD_TO_STOAT[m.channel] \in DOMAIN stoat_channels

DiscordRelayed(m) ==
    /\ last.dir = "discord_to_stoat"
    /\ last.msg = m
    /\ last.outcome = "sent"
    /\ last.sends = 1
    /\ Cardinality({f \in channel_sends : f.n = last.n}) = 1
    /\ \E f \in channel_sends :
           /\ f.n = last.n
           /\ f.msg = m
           /\ f.target = stoat_channels[DISCORD_TO_STOAT[m.channel]]

\* C19: when each client dispatches the events it has received, a message
\* with text, of another author than the bridge, on a configured channel,
\* that waits while the send target of its destination is registered,
\* leads to one send call to the target of the paired channel; in both
\* directions, whatever the handler of the other direction is doing.
C19_EventualRelay ==
    /\ \A m \in LiveStoatMessages : StoatAwaitsRelay(m) ~> StoatRelayed(m)
    /\ \A m \in LiveDiscordMessages :
           DiscordAwaitsRelay(m) ~> DiscordRelayed(m)

\* the send for a Stoat message has been issued while a send of the
\* Discord handler is still awaited
C19_Witness ==
    /\ \E m \in LiveStoatMessages : StoatRelayed(m)
    /\ channel_sends # {}
    /\ n_sends = 2
====
